---- MODULE Spec2Model ----
(***************************************************************************)
(* Binary Fusion Tap (examples/binary_fusion_tap.c).                       *)
(*                                                                         *)
(* The program is modelled statement by statement: generate_seed builds    *)
(* the decimal numeral of 1..k in a 256-byte buffer and parses it with     *)
(* strtoull; binary_fusion_tap shifts, adds k and extracts the overflow;   *)
(* print_binary prints a uint64_t in binary by recursion; main runs the    *)
(* pipeline for k = 11 and prints the report.                              *)
(*                                                                         *)
(* TLC's integers are 32 bits wide, so a uint64_t is a tuple of four       *)
(* 16-bit limbs, least significant first, and every operation on it is     *)
(* limb arithmetic modulo 2^64.  Text (the contents of temp, seed_str and  *)
(* of standard output) is a sequence of one-character strings.             *)
(***************************************************************************)
EXTENDS Integers, Sequences, FiniteSets, TLC

VARIABLES
    entry,          \* the function under execution at the bottom of the stack
    pc,             \* position in the code
    k,              \* parameter k of binary_fusion_tap / generate_seed
    i,              \* loop variable of generate_seed
    temp,           \* text held by char temp[16]
    seed_str,       \* text held by char seed_str[256]
    result,         \* BinaryFusionResult; a field is <<>> until it is written
    heartbeat_val,  \* local of binary_fusion_tap; <<>> until it is written
    stack,          \* the live frames of print_binary: the argument n of each
    pb_n,           \* argument of the outermost print_binary call
    pb_base,        \* length of the output when that call was made
    calls,          \* number of print_binary frames created by that call
    ret,            \* where the outermost print_binary call returns to
    out,            \* standard output
    exit_status     \* <<>> until main returns, then <<status>>

vars == <<entry, pc, k, i, temp, seed_str, result, heartbeat_val, stack,
          pb_n, pb_base, calls, ret, out, exit_status>>

----------------------------------------------------------------------------
(* Program constants *)

SeedStrSize == 256
TempSize == 16
Threshold == 10
MainK == 11
INT_MAX == 2147483647
INT_MIN == -INT_MAX - 1

(* Bounds of the model *)

MaxK == 124
NegK == 3
MaxN == 40

----------------------------------------------------------------------------
(* uint64_t: four 16-bit limbs, least significant first *)

LimbBase == 2^16

U64Zero == <<0, 0, 0, 0>>
U64Max == <<LimbBase - 1, LimbBase - 1, LimbBase - 1, LimbBase - 1>>

\* x * m + a as a 64-bit value and the carry out of bit 63 (m, a small)
MulAdd(x, m, a) ==
    LET c1 == x[1] * m + a
        c2 == x[2] * m + (c1 \div LimbBase)
        c3 == x[3] * m + (c2 \div LimbBase)
        c4 == x[4] * m + (c3 \div LimbBase)
    IN  [val |-> <<c1 % LimbBase, c2 % LimbBase, c3 % LimbBase, c4 % LimbBase>>,
         carry |-> c4 \div LimbBase]

\* unsigned addition, wrapping modulo 2^64
Add(x, y) ==
    LET c1 == x[1] + y[1]
        c2 == x[2] + y[2] + (c1 \div LimbBase)
        c3 == x[3] + y[3] + (c2 \div LimbBase)
        c4 == x[4] + y[4] + (c3 \div LimbBase)
    IN  <<c1 % LimbBase, c2 % LimbBase, c3 % LimbBase, c4 % LimbBase>>

\* x << 3 on uint64_t: the three top bits are shifted out
Shl3(x) ==
    LET hi(l) == l \div (LimbBase \div 8)
        lo(l) == (l * 8) % LimbBase
    IN  <<lo(x[1]), lo(x[2]) + hi(x[1]), lo(x[3]) + hi(x[2]), lo(x[4]) + hi(x[3])>>

\* x * 8 on uint64_t
Mul8(x) == MulAdd(x, 8, 0).val

RECURSIVE XorLimb(_, _, _)
XorLimb(a, b, n) ==
    IF n = 0 THEN 0
    ELSE ((a + b) % 2) + 2 * XorLimb(a \div 2, b \div 2, n - 1)

\* x ^ y on uint64_t
Xor(x, y) == [j \in 1..4 |-> XorLimb(x[j], y[j], 16)]

\* a conversion that goes through 32 bits unsigned: no sign extension
FromIntZeroExt(n) ==
    IF n >= 0
    THEN <<n % LimbBase, n \div LimbBase, 0, 0>>
    ELSE LET m == -(n + 1)
         IN  <<LimbBase - 1 - (m % LimbBase), LimbBase - 1 - (m \div LimbBase), 0, 0>>

\* the conversion of an int to uint64_t: the value modulo 2^64
FromInt(n) ==
    IF n >= 0
    THEN <<n % LimbBase, n \div LimbBase, 0, 0>>
    ELSE LET m == -(n + 1)
         IN  <<LimbBase - 1 - (m % LimbBase), LimbBase - 1 - (m \div LimbBase),
               LimbBase - 1, LimbBase - 1>>

\* n / 2 on uint64_t
Div2(x) ==
    LET d4 == x[4]
        d3 == (d4 % 2) * LimbBase + x[3]
        d2 == (d3 % 2) * LimbBase + x[2]
        d1 == (d2 % 2) * LimbBase + x[1]
    IN  <<d1 \div 2, d2 \div 2, d3 \div 2, d4 \div 2>>

\* n % 10 in place of n % 2
Mod10(x) ==
    LET d4 == x[4]
        d3 == (d4 % 10) * LimbBase + x[3]
        d2 == (d3 % 10) * LimbBase + x[2]
        d1 == (d2 % 10) * LimbBase + x[1]
    IN  <<d1 % 10, 0, 0, 0>>

\* n % 2 on uint64_t
Mod2(x) == <<x[1] % 2, 0, 0, 0>>

\* n > 0 in place of n > 1
GreaterThanZero(x) == x[4] > 0 \/ x[3] > 0 \/ x[2] > 0 \/ x[1] > 0

\* n > 1 on uint64_t
GreaterThanOne(x) == x[4] > 0 \/ x[3] > 0 \/ x[2] > 0 \/ x[1] > 1

\* quotient and remainder of x / 10
DivMod10(x) ==
    LET d4 == x[4]
        d3 == (d4 % 10) * LimbBase + x[3]
        d2 == (d3 % 10) * LimbBase + x[2]
        d1 == (d2 % 10) * LimbBase + x[1]
    IN  [q |-> <<d1 \div 10, d2 \div 10, d3 \div 10, d4 \div 10>>, r |-> d1 % 10]

----------------------------------------------------------------------------
(* Text conversions of the C library *)

DigitChars == <<"0", "1", "2", "3", "4", "5", "6", "7", "8", "9">>

DigitChar(d) == DigitChars[d + 1]

IsDigitChar(c) == \E d \in 0..9 : DigitChars[d + 1] = c

DigitVal(c) == CHOOSE d \in 0..9 : DigitChars[d + 1] = c

RECURSIVE NatText(_)
NatText(n) ==
    IF n < 10 THEN <<DigitChar(n)>>
    ELSE NatText(n \div 10) \o <<DigitChar(n % 10)>>

\* the characters sprintf/printf write for "%d"
SprintfD(n) ==
    IF n >= 0 THEN NatText(n)
    ELSE <<"-">> \o NatText(-n)

RECURSIVE FormatLLU(_)
\* the characters printf writes for "%llu"
FormatLLU(x) ==
    IF x[4] = 0 /\ x[3] = 0 /\ x[2] = 0 /\ x[1] < 10
    THEN <<DigitChar(x[1])>>
    ELSE LET d == DivMod10(x) IN FormatLLU(d.q) \o <<DigitChar(d.r)>>

RECURSIVE StrtoullFrom(_, _, _)
StrtoullFrom(s, j, acc) ==
    IF j > Len(s) \/ ~IsDigitChar(s[j]) THEN acc
    ELSE LET r == MulAdd(acc, 10, DigitVal(s[j]))
         IN  IF r.carry > 0 THEN U64Max
             ELSE StrtoullFrom(s, j + 1, r.val)

RECURSIVE StrtoullWrapFrom(_, _, _)
StrtoullWrapFrom(s, j, acc) ==
    IF j > Len(s) \/ ~IsDigitChar(s[j]) THEN acc
    ELSE LET r == MulAdd(acc, 10, DigitVal(s[j]))
         IN  StrtoullWrapFrom(s, j + 1, r.val)

\* a parse that drops the carry out of bit 63 instead of reporting the range
StrtoullWrap(s) == StrtoullWrapFrom(s, 1, U64Zero)

\* strtoull(s, NULL, 10) on a string of digits: the value of the longest
\* prefix of digits, 0 when there is none, ULLONG_MAX when the value is out
\* of range
Strtoull(s) == StrtoullFrom(s, 1, U64Zero)

----------------------------------------------------------------------------
(* Inputs *)

KInputs == (-NegK..MaxK) \cup {INT_MIN, INT_MAX}

NInputs ==
    {FromInt(n) : n \in 0..MaxN}
        \cup {U64Max, <<0, 0, 0, LimbBase \div 2>>, <<LimbBase - 1, LimbBase - 1, 0, 0>>,
              <<0, 0, 1, 0>>, <<LimbBase - 2, LimbBase - 1, LimbBase - 1, LimbBase - 1>>,
              <<1, 0, 0, LimbBase \div 2>>}

\* values a call of generate_seed that overran seed_str may still return
UBValues == {U64Zero, U64Max, <<1, 0, 0, 0>>, <<0, 0, 0, LimbBase \div 4>>,
             <<LimbBase - 1, LimbBase - 1, LimbBase - 1, (LimbBase \div 8) - 1>>}

NoResult == [k |-> <<>>, seed_value |-> <<>>, tap_state |-> <<>>, zpe_overflow |-> <<>>]

Init ==
    /\ entry \in {"main", "binary_fusion_tap", "print_binary"}
    /\ i = 0
    /\ temp = <<>>
    /\ seed_str = <<>>
    /\ result = NoResult
    /\ heartbeat_val = <<>>
    /\ out = <<>>
    /\ exit_status = <<>>
    /\ pb_base = 0
    /\ calls = IF entry = "print_binary" THEN 1 ELSE 0
    /\ \/ /\ entry = "main"
          /\ pc = "main_start"
          /\ k = 0
          /\ stack = <<>>
          /\ pb_n = <<>>
          /\ ret = "none"
       \/ /\ entry = "binary_fusion_tap"
          /\ pc = "tap_entry"
          /\ k \in KInputs
          /\ stack = <<>>
          /\ pb_n = <<>>
          /\ ret = "none"
       \/ /\ entry = "print_binary"
          /\ pc = "pb_test"
          /\ k = 0
          /\ pb_n \in NInputs
          /\ stack = <<pb_n>>
          /\ ret = "done"

----------------------------------------------------------------------------
(* generate_seed *)

\* a loop that tests its condition after the body
LoopCondDoWhile(iv, kv) == iv <= kv \/ iv = 1

\* the loop condition i <= k
LoopCond(iv, kv) == iv <= kv

\* line 30: sprintf(temp, "%d", i), when the loop condition holds
SeedSprintf ==
    /\ pc = "seed_loop"
    /\ LoopCond(i, k)
    /\ temp' = SprintfD(i)
    /\ pc' = "seed_cat"
    /\ UNCHANGED <<entry, k, i, seed_str, result, heartbeat_val, stack, pb_n,
                   pb_base, calls, ret, out, exit_status>>

\* line 31: strcat(seed_str, temp), then i++.  strcat writes Len(temp) + 1
\* bytes from the end of the string; past byte 256 the behaviour is undefined
SeedStrcat ==
    /\ pc = "seed_cat"
    /\ seed_str' = seed_str \o temp
    /\ IF Len(seed_str) + Len(temp) + 1 > SeedStrSize
       THEN pc' = "ub" /\ i' = i
       ELSE pc' = "seed_loop" /\ i' = i + 1
    /\ UNCHANGED <<entry, k, temp, result, heartbeat_val, stack, pb_n,
                   pb_base, calls, ret, out, exit_status>>

\* line 34 and line 46: the loop is over; result.seed_value = strtoull(...)
SeedReturn ==
    /\ pc = "seed_loop"
    /\ ~LoopCond(i, k)
    /\ result' = [result EXCEPT !.seed_value = Strtoull(seed_str)]
    /\ pc' = "tap_shift"
    /\ UNCHANGED <<entry, k, i, temp, seed_str, heartbeat_val, stack, pb_n,
                   pb_base, calls, ret, out, exit_status>>

\* after the overrun: the process is killed (stack protector, fault) ...
UBCrash ==
    /\ pc = "ub"
    /\ pc' = "crashed"
    /\ UNCHANGED <<entry, k, i, temp, seed_str, result, heartbeat_val, stack,
                   pb_n, pb_base, calls, ret, out, exit_status>>

\* ... or generate_seed returns some value all the same
UBReturn ==
    /\ pc = "ub"
    /\ \E v \in UBValues : result' = [result EXCEPT !.seed_value = v]
    /\ pc' = "tap_shift"
    /\ UNCHANGED <<entry, k, i, temp, seed_str, heartbeat_val, stack, pb_n,
                   pb_base, calls, ret, out, exit_status>>

----------------------------------------------------------------------------
(* binary_fusion_tap *)

\* lines 42-46: result.k = k and the call of generate_seed(k), whose locals
\* are seed_str = {0}, temp and i = 1
TapEntry ==
    /\ pc = "tap_entry"
    /\ result' = [NoResult EXCEPT !.k = <<k>>]
    /\ seed_str' = <<>>
    /\ temp' = <<>>
    /\ i' = 1
    /\ pc' = "seed_loop"
    /\ UNCHANGED <<entry, k, heartbeat_val, stack, pb_n, pb_base, calls, ret,
                   out, exit_status>>

\* line 49: heartbeat_val = result.seed_value << 3
Heartbeat ==
    /\ pc = "tap_shift"
    /\ heartbeat_val' = Shl3(result.seed_value)
    /\ pc' = "tap_add"
    /\ UNCHANGED <<entry, k, i, temp, seed_str, result, stack, pb_n, pb_base,
                   calls, ret, out, exit_status>>

\* line 52: result.tap_state = heartbeat_val + k
PhaseOffset ==
    /\ pc = "tap_add"
    /\ result' = [result EXCEPT !.tap_state = Add(heartbeat_val, FromInt(k))]
    /\ pc' = "tap_zpe"
    /\ UNCHANGED <<entry, k, i, temp, seed_str, heartbeat_val, stack, pb_n,
                   pb_base, calls, ret, out, exit_status>>

\* the threshold compared with <= in place of <
ExtractOverflowLE ==
    /\ pc = "tap_zpe"
    /\ result' = [result EXCEPT !.zpe_overflow =
                    IF k <= Threshold THEN U64Zero
                    ELSE Xor(result.tap_state, Mul8(result.seed_value))]
    /\ pc' = "tap_ret"
    /\ UNCHANGED <<entry, k, i, temp, seed_str, heartbeat_val, stack, pb_n,
                   pb_base, calls, ret, out, exit_status>>

\* the two branches exchanged
ExtractOverflowInverted ==
    /\ pc = "tap_zpe"
    /\ result' = [result EXCEPT !.zpe_overflow =
                    IF k >= Threshold THEN U64Zero
                    ELSE Xor(result.tap_state, Mul8(result.seed_value))]
    /\ pc' = "tap_ret"
    /\ UNCHANGED <<entry, k, i, temp, seed_str, heartbeat_val, stack, pb_n,
                   pb_base, calls, ret, out, exit_status>>

\* lines 55-59
ExtractOverflow ==
    /\ pc = "tap_zpe"
    /\ result' = [result EXCEPT !.zpe_overflow =
                    IF k < Threshold THEN U64Zero
                    ELSE Xor(result.tap_state, Mul8(result.seed_value))]
    /\ pc' = "tap_ret"
    /\ UNCHANGED <<entry, k, i, temp, seed_str, heartbeat_val, stack, pb_n,
                   pb_base, calls, ret, out, exit_status>>

\* line 61: return result, to main or to the caller
TapReturn ==
    /\ pc = "tap_ret"
    /\ pc' = IF entry = "main" THEN "main_k" ELSE "done"
    /\ UNCHANGED <<entry, k, i, temp, seed_str, result, heartbeat_val, stack,
                   pb_n, pb_base, calls, ret, out, exit_status>>

----------------------------------------------------------------------------
(* print_binary *)

\* a call print_binary(n) that returns to r
CallPrintBinary(n, r) ==
    /\ stack' = <<n>>
    /\ pb_n' = n
    /\ pb_base' = Len(out)
    /\ calls' = 1
    /\ ret' = r
    /\ pc' = "pb_test"

\* line 71 and the return: printf("%llu", n % 2), then the frame is popped
PrintDigitAndReturn ==
    /\ out' = out \o FormatLLU(Mod2(stack[Len(stack)]))
    /\ stack' = SubSeq(stack, 1, Len(stack) - 1)
    /\ pc' = IF Len(stack) = 1 THEN ret ELSE "pb_print"
    /\ UNCHANGED <<entry, k, i, temp, seed_str, result, heartbeat_val, pb_n,
                   pb_base, calls, ret, exit_status>>

\* lines 68-69: n > 1, so print_binary(n / 2) is called
PBRecurse ==
    /\ pc = "pb_test"
    /\ GreaterThanOne(stack[Len(stack)])
    /\ stack' = Append(stack, Div2(stack[Len(stack)]))
    /\ calls' = calls + 1
    /\ UNCHANGED <<entry, pc, k, i, temp, seed_str, result, heartbeat_val, pb_n,
                   pb_base, ret, out, exit_status>>

\* lines 68, 71: n <= 1, the digit is printed without a recursive call
PBPrintLeaf ==
    /\ pc = "pb_test"
    /\ ~GreaterThanOne(stack[Len(stack)])
    /\ PrintDigitAndReturn

\* line 71 in a frame whose recursive call has returned
PBPrintAfter ==
    /\ pc = "pb_print"
    /\ PrintDigitAndReturn

----------------------------------------------------------------------------
(* main *)

\* line 75: binary_fusion_tap(11)
MainCall ==
    /\ pc = "main_start"
    /\ k' = MainK
    /\ pc' = "tap_entry"
    /\ UNCHANGED <<entry, i, temp, seed_str, result, heartbeat_val, stack, pb_n,
                   pb_base, calls, ret, out, exit_status>>

\* line 77
MainPrintK ==
    /\ pc = "main_k"
    /\ out' = out \o <<"K Parameter: ">> \o SprintfD(result.k[1]) \o <<"\n">>
    /\ pc' = "main_seed"
    /\ UNCHANGED <<entry, k, i, temp, seed_str, result, heartbeat_val, stack,
                   pb_n, pb_base, calls, ret, exit_status>>

\* line 78
MainPrintSeed ==
    /\ pc = "main_seed"
    /\ out' = out \o <<"Seed Value: ">> \o FormatLLU(result.seed_value) \o <<"\n">>
    /\ pc' = "main_tap"
    /\ UNCHANGED <<entry, k, i, temp, seed_str, result, heartbeat_val, stack,
                   pb_n, pb_base, calls, ret, exit_status>>

\* line 79
MainPrintTapLabel ==
    /\ pc = "main_tap"
    /\ out' = out \o <<"Tap State: 0b">>
    /\ pc' = "main_tap_bin"
    /\ UNCHANGED <<entry, k, i, temp, seed_str, result, heartbeat_val, stack,
                   pb_n, pb_base, calls, ret, exit_status>>

\* line 80
MainCallPrintTap ==
    /\ pc = "main_tap_bin"
    /\ CallPrintBinary(result.tap_state, "main_nl")
    /\ UNCHANGED <<entry, k, i, temp, seed_str, result, heartbeat_val, out,
                   exit_status>>

\* line 81
MainPrintNewline ==
    /\ pc = "main_nl"
    /\ out' = out \o <<"\n">>
    /\ pc' = "main_zpe"
    /\ UNCHANGED <<entry, k, i, temp, seed_str, result, heartbeat_val, stack,
                   pb_n, pb_base, calls, ret, exit_status>>

\* line 82
MainPrintZpeLabel ==
    /\ pc = "main_zpe"
    /\ out' = out \o <<"ZPE Overflow: 0b">>
    /\ pc' = "main_zpe_bin"
    /\ UNCHANGED <<entry, k, i, temp, seed_str, result, heartbeat_val, stack,
                   pb_n, pb_base, calls, ret, exit_status>>

\* line 83
MainCallPrintZpe ==
    /\ pc = "main_zpe_bin"
    /\ CallPrintBinary(result.zpe_overflow, "main_dec")
    /\ UNCHANGED <<entry, k, i, temp, seed_str, result, heartbeat_val, out,
                   exit_status>>

\* the decimal field printed from tap_state in place of zpe_overflow
MainPrintDecimalOfTap ==
    /\ pc = "main_dec"
    /\ out' = out \o <<" (decimal: ">> \o FormatLLU(result.tap_state) \o <<")\n">>
    /\ pc' = "main_ret"
    /\ UNCHANGED <<entry, k, i, temp, seed_str, result, heartbeat_val, stack,
                   pb_n, pb_base, calls, ret, exit_status>>

\* line 84
MainPrintDecimal ==
    /\ pc = "main_dec"
    /\ out' = out \o <<" (decimal: ">> \o FormatLLU(result.zpe_overflow) \o <<")\n">>
    /\ pc' = "main_ret"
    /\ UNCHANGED <<entry, k, i, temp, seed_str, result, heartbeat_val, stack,
                   pb_n, pb_base, calls, ret, exit_status>>

\* line 86: return 0
MainReturn ==
    /\ pc = "main_ret"
    /\ exit_status' = <<0>>
    /\ pc' = "done"
    /\ UNCHANGED <<entry, k, i, temp, seed_str, result, heartbeat_val, stack,
                   pb_n, pb_base, calls, ret, out>>

Next ==
    \/ SeedSprintf
    \/ SeedStrcat
    \/ SeedReturn
    \/ UBCrash
    \/ UBReturn
    \/ TapEntry
    \/ Heartbeat
    \/ PhaseOffset
    \/ ExtractOverflow
    \/ TapReturn
    \/ PBRecurse
    \/ PBPrintLeaf
    \/ PBPrintAfter
    \/ MainCall
    \/ MainPrintK
    \/ MainPrintSeed
    \/ MainPrintTapLabel
    \/ MainCallPrintTap
    \/ MainPrintNewline
    \/ MainPrintZpeLabel
    \/ MainCallPrintZpe
    \/ MainPrintDecimal
    \/ MainReturn

Spec == Init /\ [][Next]_vars

----------------------------------------------------------------------------
(* The mathematics the claims are stated in: a 64-bit value as its 64 bits, *)
(* least significant first, and a numeral as its decimal digits.            *)

\* a 64-bit vector, held as a tuple
Vec(f) == SubSeq(f, 1, 64)

Bits(x) == Vec([j \in 1..64 |-> (x[((j - 1) \div 16) + 1] \div 2^((j - 1) % 16)) % 2])

ZeroBits == Vec([j \in 1..64 |-> 0])

OneBits == Vec([j \in 1..64 |-> 1])

\* an int modulo 2^64: two's complement, the sign repeated from bit 31 up
IntBits(n) == Vec([j \in 1..64 |-> IF j <= 31 THEN (n \div 2^(j - 1)) % 2
                                   ELSE IF n < 0 THEN 1 ELSE 0])

ShlBits(b, s) == Vec([j \in 1..64 |-> IF j <= s THEN 0 ELSE b[j - s]])

XorBits(a, b) == Vec([j \in 1..64 |-> IF a[j] = b[j] THEN 0 ELSE 1])

\* the carry into bit j of a + b: generated at a lower bit g and propagated
\* by every bit between g and j
CarryInto(a, b, j) ==
    \E g \in 1..(j - 1) :
        /\ a[g] = 1
        /\ b[g] = 1
        /\ \A h \in (g + 1)..(j - 1) : a[h] # b[h]

\* a + b modulo 2^64
BitAdd(a, b) ==
    Vec([j \in 1..64 |-> (a[j] + b[j] + (IF CarryInto(a, b, j) THEN 1 ELSE 0)) % 2])

\* 8 * a modulo 2^64, by doubling three times
Times8Bits(a) ==
    LET twice(b) == BitAdd(b, b) IN twice(twice(twice(a)))

\* x < y on 64-bit values
Less(x, y) ==
    \E j \in 1..4 : x[j] < y[j] /\ \A h \in (j + 1)..4 : x[h] = y[h]

NumDigits(n) == CHOOSE d \in 1..10 : 10^(d - 1) <= n /\ (d = 10 \/ n < 10^d)

DigitsOf(n) == [j \in 1..NumDigits(n) |-> (n \div 10^(NumDigits(n) - j)) % 10]

\* the length of the numeral 1 2 3 ... n (n below 10000)
NumeralLen(n) ==
    IF n <= 0 THEN 0
    ELSE IF n < 10 THEN n
    ELSE IF n < 100 THEN 9 + 2 * (n - 9)
    ELSE IF n < 1000 THEN 189 + 3 * (n - 99)
    ELSE 2889 + 4 * (n - 999)

\* its digit at position p
NumeralDigit(p) ==
    IF p <= 9 THEN p
    ELSE IF p <= 189 THEN DigitsOf(10 + ((p - 10) \div 2))[((p - 10) % 2) + 1]
    ELSE IF p <= 2889 THEN DigitsOf(100 + ((p - 190) \div 3))[((p - 190) % 3) + 1]
    ELSE DigitsOf(1000 + ((p - 2890) \div 4))[((p - 2890) % 4) + 1]

\* the digits of the numeral 1 2 3 ... n
Numeral(n) == SubSeq([p \in 1..NumeralLen(n) |-> NumeralDigit(p)], 1, NumeralLen(n))

U64MaxDigits == <<1, 8, 4, 4, 6, 7, 4, 4, 0, 7, 3, 7, 0, 9, 5, 5, 1, 6, 1, 5>>

\* the numeral d (no leading zero) is greater than 2^64 - 1
Exceeds(d) ==
    \/ Len(d) > Len(U64MaxDigits)
    \/ /\ Len(d) = Len(U64MaxDigits)
       /\ \E j \in 1..Len(d) :
             d[j] > U64MaxDigits[j] /\ \A h \in 1..(j - 1) : d[h] = U64MaxDigits[h]

RECURSIVE LowBitsFrom(_, _, _)
\* acc * 10 + d[j], digit by digit; each sum is computed in full before the
\* next digit is taken
LowBitsFrom(d, j, acc) ==
    IF j > Len(d) THEN acc
    ELSE LET next == BitAdd(BitAdd(ShlBits(acc, 3), ShlBits(acc, 1)), IntBits(d[j]))
         IN  IF Len(next) = 64 THEN LowBitsFrom(d, j + 1, next) ELSE <<>>

\* the value of the numeral d modulo 2^64
LowBits(d) == LowBitsFrom(d, 1, ZeroBits)

\* the bits of the binary numeral s, most significant digit first
BinaryTextBits(s) ==
    Vec([j \in 1..64 |-> IF j <= Len(s) /\ s[Len(s) - j + 1] = "1" THEN 1 ELSE 0])

IsPrefix(s, t) == Len(s) <= Len(t) /\ \A j \in 1..Len(s) : s[j] = t[j]

\* generate_seed has returned without overrunning seed_str
SeedReturned ==
    /\ result.seed_value # <<>>
    /\ Len(seed_str) + 1 <= SeedStrSize

\* the outermost print_binary call has just returned
PrintReturned == pb_n # <<>> /\ stack = <<>> /\ pc = ret

\* what that call has printed so far
Emitted == SubSeq(out, pb_base + 1, Len(out))

----------------------------------------------------------------------------
(* Claims *)

\* C1: for every k in 1..15, generate_seed(k) is exactly the value of the
\* numeral 1 2 ... k: that value fits in 64 bits and the result equals it.
C1_SafeRangeExact ==
    (SeedReturned /\ k \in 1..15)
        => /\ ~Exceeds(Numeral(k))
           /\ Bits(result.seed_value) = LowBits(Numeral(k))

\* C2 as stated: when the numeral 1 2 ... k exceeds 2^64 - 1, generate_seed(k)
\* is the value of the numeral modulo 2^64.
C2_WrapsModulo ==
    (SeedReturned /\ k >= 1 /\ Exceeds(Numeral(k)))
        => Bits(result.seed_value) = LowBits(Numeral(k))

\* C2 as amended: when the numeral 1 2 ... k exceeds 2^64 - 1 and fits in
\* seed_str, generate_seed(k) is 2^64 - 1: the parse saturates.
C2_Saturates ==
    (SeedReturned /\ k >= 1 /\ Exceeds(Numeral(k)))
        => Bits(result.seed_value) = OneBits

C2_Witness ==
    /\ entry = "binary_fusion_tap"
    /\ pc = "done"
    /\ SeedReturned
    /\ k = 121
    /\ Exceeds(Numeral(k))
    /\ result.seed_value = U64Max

\* C3: for every k, tap_state = ((seed_value << 3) + k) mod 2^64, with k
\* taken modulo 2^64.
C3_TransformIdentity ==
    result.tap_state # <<>>
        => Bits(result.tap_state)
             = BitAdd(ShlBits(Bits(result.seed_value), 3), IntBits(k))

C3_Witness ==
    /\ entry = "binary_fusion_tap"
    /\ pc = "done"
    /\ k = -1
    /\ result.seed_value = U64Zero
    /\ result.tap_state = U64Max

\* C4: zpe_overflow is 0 for k < 10 and tap_state XOR (seed_value * 8 mod
\* 2^64) for k >= 10.
C4_OverflowGating ==
    result.zpe_overflow # <<>>
        => IF k < 10
           THEN Bits(result.zpe_overflow) = ZeroBits
           ELSE Bits(result.zpe_overflow)
                  = XorBits(Bits(result.tap_state),
                            Times8Bits(Bits(result.seed_value)))

C4_Witness ==
    /\ entry = "binary_fusion_tap"
    /\ pc = "done"
    /\ k = 10
    /\ result.zpe_overflow # U64Zero

\* C5: for every k <= 0 generate_seed(k) concatenates nothing and returns 0,
\* and binary_fusion_tap(0) has seed_value = tap_state = zpe_overflow = 0.
C5_NonPositive ==
    (entry = "binary_fusion_tap" /\ k <= 0)
        => /\ seed_str = <<>>
           /\ temp = <<>>
           /\ pc # "seed_cat"
           /\ result.seed_value # <<>> => Bits(result.seed_value) = ZeroBits
           /\ (k = 0 /\ result.tap_state # <<>>)
                 => Bits(result.tap_state) = ZeroBits
           /\ (k = 0 /\ result.zpe_overflow # <<>>)
                 => Bits(result.zpe_overflow) = ZeroBits

C5_Witness ==
    /\ entry = "binary_fusion_tap"
    /\ pc = "done"
    /\ k = 0
    /\ result.seed_value = U64Zero
    /\ result.zpe_overflow = U64Zero

\* C6: generate_seed has no failure state: every write into temp and into
\* seed_str, the terminating NUL included, stays inside the buffer, and the
\* call completes.
C6_WritesInBounds ==
    /\ Len(temp) + 1 <= TempSize
    /\ Len(seed_str) + 1 <= SeedStrSize
    /\ pc # "crashed"

\* C7: what print_binary(n) prints is made of '0' and '1' only, reads back
\* in base 2, most significant digit first, as n, and starts with '0' only
\* when n = 0, where it is exactly "0".
C7_RoundTrip ==
    PrintReturned
        => /\ Len(Emitted) \in 1..64
           /\ \A j \in 1..Len(Emitted) : Emitted[j] \in {"0", "1"}
           /\ BinaryTextBits(Emitted) = Bits(pb_n)
           /\ Emitted[1] = "0" => (pb_n = U64Zero /\ Emitted = <<"0">>)

C7_Witness ==
    /\ entry = "print_binary"
    /\ PrintReturned
    /\ pb_n = <<LimbBase - 2, LimbBase - 1, LimbBase - 1, LimbBase - 1>>
    /\ Len(Emitted) = 64
    /\ Emitted[64] = "0"

\* C8: print_binary(n) terminates: the argument of each nested call is
\* smaller than its caller's, at most 64 frames are ever live, a step is
\* always possible until the call returns, and one digit is printed per
\* frame.
C8_Terminates ==
    /\ pc \in {"pb_test", "pb_print"} => stack # <<>>
    /\ stack # <<>>
         => /\ Len(stack) <= 64
            /\ stack[1] = pb_n
            /\ \A j \in 2..Len(stack) : Less(stack[j], stack[j - 1])
            /\ calls = Len(stack) + Len(Emitted)
    /\ PrintReturned => (calls = Len(Emitted) /\ calls <= 64)

C8_Witness ==
    /\ entry = "print_binary"
    /\ pb_n = U64Max
    /\ PrintReturned
    /\ calls = 64

ExpectedReport ==
    <<"K Parameter: ", "1", "1", "\n", "Seed Value: ", "1", "2", "3", "4",
      "5", "6", "7", "8", "9", "1", "0", "1", "1", "\n", "Tap State: 0b",
      "1", "0", "0", "0", "1", "1", "1", "1", "1", "0", "1", "1", "1", "0",
      "0", "0", "1", "1", "1", "1", "1", "1", "0", "1", "1", "0", "0", "0",
      "0", "1", "0", "0", "0", "0", "1", "0", "0", "0", "1", "0", "0", "0",
      "1", "1", "\n", "ZPE Overflow: 0b", "1", "1", "1", "0", "1", "1",
      " (decimal: ", "5", "9", ")\n">>

\* C9: main runs the pipeline once, with k = 11, prints nothing before the
\* result is complete, then prints exactly the four fields K Parameter,
\* Seed Value, Tap State, ZPE Overflow in this order, and returns 0.
C9_MainReport ==
    entry = "main"
        => /\ IsPrefix(out, ExpectedReport)
           /\ result.k # <<>> => (result.k = <<11>> /\ k = 11)
           /\ out # <<>> => /\ result.zpe_overflow # <<>>
                            /\ pc \notin {"tap_ret", "tap_entry", "main_start"}
           /\ exit_status # <<>> => (exit_status = <<0>> /\ pc = "done")
           /\ pc = "done" => (out = ExpectedReport /\ exit_status = <<0>>)
           /\ pc # "crashed"

C9_Witness ==
    /\ entry = "main"
    /\ pc = "done"
    /\ exit_status = <<0>>
    /\ Len(out) = Len(ExpectedReport)

\* C10: zpe_overflow = 0 if and only if k < 10, whatever seed_value is.
C10_ZeroIffQuiet ==
    result.zpe_overflow # <<>>
        => (Bits(result.zpe_overflow) = ZeroBits <=> k < 10)

C10_Witness ==
    /\ entry = "binary_fusion_tap"
    /\ pc = "done"
    /\ k >= 10
    /\ result.seed_value = U64Max
    /\ result.zpe_overflow # U64Zero

====
